---- MODULE Spec2Model ----
(***************************************************************************)
(* Model of the merge engine of trapi-model-rs (src/src/lib.rs): the       *)
(* derived Merge implementations of Message, KnowledgeGraph, Node and Edge *)
(* and the hand-written merge strategies they name.                        *)
(*                                                                         *)
(* Representation.                                                         *)
(*   Option<T>        a sequence of length 0 (None) or 1 (Some(x))         *)
(*   Vec<T>           a sequence                                           *)
(*   HashMap/BTreeMap a function whose domain is the key set               *)
(*   String           a TLA+ string where only equality and joining are    *)
(*                    used; a natural number where the code orders the     *)
(*                    strings (the order of the numbers is the order of    *)
(*                    the strings)                                         *)
(*   f64 score        a natural number; OrderedFloat equality is equality  *)
(*   Ordering         "Less", "Equal", "Greater"                           *)
(***************************************************************************)
EXTENDS Integers, Sequences, FiniteSets, TLC

VARIABLES
    left,        \* the accumulator Message, mutated in place by merge
    first,       \* the accumulator before the first merge
    inputs,      \* the incoming Messages merged so far, in order
    prev,        \* the accumulator before the latest merge
    panicked,    \* TRUE once a merge call has panicked
    stdsort,     \* which insertion sort the toolchain's slice::sort_by runs
    cKind,       \* canonicalizer run: which collection is canonicalized
    cIn,         \* canonicalizer run: the collection
    cPerm,       \* canonicalizer run: another ordering of the collection
    cOut,        \* canonicalizer run: canonical form of cIn
    cOutPerm,    \* canonicalizer run: canonical form of cPerm
    cAgain,      \* canonicalizer run: canonical form of a permutation of cOut
    cPc,         \* canonicalizer run: "idle", "start", "applied", "reapplied"
    sEvidence,   \* scorer run: the Evidence list of one (subject, object) pair
    sScore,      \* scorer run: what compute_composite_score returned
    sPc          \* scorer run: "idle", "start", "scored"

vars == <<left, first, inputs, prev, panicked, stdsort,
          cKind, cIn, cPerm, cOut, cOutPerm, cAgain, cPc,
          sEvidence, sScore, sPc>>

mergeVars == <<left, first, inputs, prev, panicked>>
canonVars == <<cKind, cIn, cPerm, cOut, cOutPerm, cAgain, cPc>>
scoreVars == <<sEvidence, sScore, sPc>>

----------------------------------------------------------------------------
(* Option<T> *)

None == <<>>
Some(x) == <<x>>
IsSome(o) == Len(o) = 1
IsNone(o) == Len(o) = 0
Unwrap(o) == o[1]

(* An empty map. *)
EmptyMap == [k \in {} |-> 0]

(* merge_hashmap::option::overwrite_none: take right only when left is None. *)
OverwriteNone(l, r) == IF IsNone(l) THEN r ELSE l

----------------------------------------------------------------------------
(* Orderings *)

(* Ord::cmp on strings, the strings being coded by naturals. *)
Cmp(a, b) == IF a < b THEN "Less" ELSE IF a = b THEN "Equal" ELSE "Greater"

(* Ordering::then *)
Then(x, y) == IF x = "Equal" THEN y ELSE x

(* Mutant of PartialCmp: a partial order under which different strings are *)
(* incomparable.                                                           *)
PartialCmpIncomparable(a, b) == IF a = b THEN Some("Equal") ELSE None

(* PartialOrd::partial_cmp on String: always Some(cmp). *)
PartialCmp(a, b) == Some(Cmp(a, b))

(* The comparator closure of merge_attributes and merge_optional_attributes. *)
AttributeCompare(a, b) ==
    IF IsSome(a.original_attribute_name) /\ IsSome(b.original_attribute_name)
    THEN Then(Cmp(a.attribute_type_id, b.attribute_type_id),
              Cmp(Unwrap(a.original_attribute_name), Unwrap(b.original_attribute_name)))
    ELSE IF IsNone(a.original_attribute_name) /\ IsNone(b.original_attribute_name)
    THEN Cmp(a.attribute_type_id, b.attribute_type_id)
    ELSE "Less"

(* The comparator closure of merge_edge_sources. *)
SourceCompare(a, b) ==
    Then(Cmp(a.resource_id, b.resource_id), Cmp(a.resource_role, b.resource_role))

(* The comparator closure of merge_edge_qualifiers; None when the unwrap of  *)
(* partial_cmp would panic.                                                  *)
QualifierCompare(a, b) == PartialCmp(a.qualifier_type_id, b.qualifier_type_id)

(* The comparator a collection kind is sorted with. *)
Compare(kind, a, b) ==
    CASE kind = "attributes" -> AttributeCompare(a, b)
      [] kind = "sources"    -> SourceCompare(a, b)
      [] kind = "qualifiers" -> Unwrap(QualifierCompare(a, b))
      [] kind = "categories" -> Cmp(a, b)

IsLess(kind, a, b) == Compare(kind, a, b) = "Less"

----------------------------------------------------------------------------
(* slice::sort_by on a slice of at most 20 elements is an insertion sort.   *)
(* Toolchains differ in its direction: insertion_sort_shift_left inserts    *)
(* each element into the sorted prefix before it, the older merge_sort      *)
(* inserts each element into the sorted suffix after it (insert_head).      *)
(* Both are the same stable sort under a total order and may differ under   *)
(* a comparator that is not one.                                            *)

RECURSIVE InsertTail(_, _, _)
InsertTail(kind, s, x) ==
    IF s = <<>> THEN <<x>>
    ELSE IF IsLess(kind, x, s[Len(s)])
         THEN Append(InsertTail(kind, SubSeq(s, 1, Len(s) - 1), x), s[Len(s)])
         ELSE Append(s, x)

RECURSIVE SortShiftLeft(_, _)
SortShiftLeft(kind, v) ==
    IF Len(v) < 2 THEN v
    ELSE InsertTail(kind, SortShiftLeft(kind, SubSeq(v, 1, Len(v) - 1)), v[Len(v)])

RECURSIVE InsertHead(_, _, _)
InsertHead(kind, x, s) ==
    IF s = <<>> THEN <<x>>
    ELSE IF IsLess(kind, s[1], x)
         THEN <<s[1]>> \o InsertHead(kind, x, Tail(s))
         ELSE <<x>> \o s

RECURSIVE SortInsertHead(_, _)
SortInsertHead(kind, v) ==
    IF Len(v) < 2 THEN v
    ELSE InsertHead(kind, v[1], SortInsertHead(kind, Tail(v)))

SortBy(kind, v) ==
    IF stdsort = "shift_left" THEN SortShiftLeft(kind, v) ELSE SortInsertHead(kind, v)

(* Vec::dedup: drop every element equal to the one before it. *)
RECURSIVE Dedup(_)
Dedup(v) ==
    IF Len(v) < 2 THEN v
    ELSE LET d == Dedup(SubSeq(v, 1, Len(v) - 1))
         IN  IF v[Len(v)] = d[Len(d)] THEN d ELSE Append(d, v[Len(v)])

(* The sort-then-dedup step that ends every append-and-canonicalize merge. *)
SortDedup(kind, v) == Dedup(SortBy(kind, v))

----------------------------------------------------------------------------
(* Field merge strategies *)

merge_node_categories(l, r) == SortDedup("categories", l \o r)

merge_edge_sources(l, r) == SortDedup("sources", l \o r)

merge_attributes(l, r) == SortDedup("attributes", l \o r)

merge_optional_attributes(l, r) ==
    IF IsSome(r)
    THEN IF IsSome(l)
         THEN Some(SortDedup("attributes", Unwrap(l) \o Unwrap(r)))
         ELSE r
    ELSE l

merge_edge_qualifiers(l, r) ==
    IF IsSome(r)
    THEN IF IsSome(l)
         THEN Some(SortDedup("qualifiers", Unwrap(l) \o Unwrap(r)))
         ELSE r
    ELSE l

(* Whether merge_edge_qualifiers panics: the unwrap of a partial_cmp that   *)
(* is None, on any pair of the extended list the sort may compare.          *)
QualifiersPanic(l, r) ==
    /\ IsSome(l)
    /\ IsSome(r)
    /\ LET v == Unwrap(l) \o Unwrap(r)
       IN  \E i, j \in 1..Len(v) : i # j /\ IsNone(QualifierCompare(v[i], v[j]))

(* #[derive(Merge)] for Node *)
NodeMerge(l, r) ==
    [name       |-> OverwriteNone(l.name, r.name),
     categories |-> merge_node_categories(l.categories, r.categories),
     attributes |-> merge_attributes(l.attributes, r.attributes),
     is_set     |-> OverwriteNone(l.is_set, r.is_set)]

(* #[derive(Merge)] for Edge *)
EdgeMerge(l, r) ==
    [subject    |-> l.subject,
     predicate  |-> l.predicate,
     object     |-> l.object,
     sources    |-> merge_edge_sources(l.sources, r.sources),
     attributes |-> merge_optional_attributes(l.attributes, r.attributes),
     qualifiers |-> merge_edge_qualifiers(l.qualifiers, r.qualifiers)]

(* merge_hashmap::hashmap::recurse on KnowledgeGraph.edges: an occupied    *)
(* entry is merged with the incoming value, a vacant one takes it.         *)
HashMapRecurseEdges(l, r) ==
    [k \in DOMAIN l \cup DOMAIN r |->
        IF k \in DOMAIN l
        THEN IF k \in DOMAIN r THEN EdgeMerge(l[k], r[k]) ELSE l[k]
        ELSE r[k]]

(* merge_hashmap::hashmap::recurse on KnowledgeGraph.nodes. *)
HashMapRecurseNodes(l, r) ==
    [k \in DOMAIN l \cup DOMAIN r |->
        IF k \in DOMAIN l
        THEN IF k \in DOMAIN r THEN NodeMerge(l[k], r[k]) ELSE l[k]
        ELSE r[k]]

(* Mutant of KnowledgeGraphMerge: nodes declared #[merge(skip)]. *)
KnowledgeGraphMergeSkipNodes(l, r) ==
    [edges |-> HashMapRecurseEdges(l.edges, r.edges),
     nodes |-> l.nodes]

(* #[derive(Merge)] for KnowledgeGraph *)
KnowledgeGraphMerge(l, r) ==
    [edges |-> HashMapRecurseEdges(l.edges, r.edges),
     nodes |-> HashMapRecurseNodes(l.nodes, r.nodes)]

(* merge_hashmap::option::recurse on Message.knowledge_graph *)
merge_knowledge_graph(l, r) ==
    IF IsSome(r)
    THEN IF IsSome(l) THEN Some(KnowledgeGraphMerge(Unwrap(l), Unwrap(r))) ELSE r
    ELSE l

KnowledgeGraphPanics(l, r) ==
    /\ IsSome(l)
    /\ IsSome(r)
    /\ \E k \in DOMAIN Unwrap(l).edges \cap DOMAIN Unwrap(r).edges :
          QualifiersPanic(Unwrap(l).edges[k].qualifiers, Unwrap(r).edges[k].qualifiers)

(* BTreeMap::extend: every incoming entry is inserted, replacing an entry   *)
(* already under its key.                                                   *)
merge_message_auxiliary_graphs(l, r) ==
    IF IsSome(r)
    THEN IF IsSome(l)
         THEN Some([k \in DOMAIN Unwrap(l) \cup DOMAIN Unwrap(r) |->
                      IF k \in DOMAIN Unwrap(r) THEN Unwrap(r)[k] ELSE Unwrap(l)[k]])
         ELSE r
    ELSE l

----------------------------------------------------------------------------
(* merge_message_results *)

(* Iterator::join of the binding ids with "," *)
RECURSIVE Join(_)
Join(ids) ==
    IF Len(ids) = 0 THEN ""
    ELSE IF Len(ids) = 1 THEN ids[1]
    ELSE ids[1] \o "," \o Join(Tail(ids))

(* Mutant of ResultIds: only the first binding of each key is part of the   *)
(* identity.                                                                 *)
ResultIdsFirstOnly(result) ==
    [k \in DOMAIN result.node_bindings |->
        IF Len(result.node_bindings[k]) = 0 THEN "" ELSE result.node_bindings[k][1].id]

(* orig_result_ids / new_result_ids: for every query-node key, in key order, *)
(* the key and the joined ids of its bindings.  Two such vectors over sorted *)
(* distinct keys are equal exactly when they are equal as maps.              *)
ResultIds(result) ==
    [k \in DOMAIN result.node_bindings |->
        Join([i \in 1..Len(result.node_bindings[k]) |-> result.node_bindings[k][i].id])]

Min(S) == CHOOSE x \in S : \A y \in S : x <= y

(* Mutant of FindResult: the last incoming Result with the same ids. *)
FindResultLast(new, orig_result) ==
    LET hits == {i \in 1..Len(new) : ResultIds(new[i]) = ResultIds(orig_result)}
    IN  IF hits = {} THEN None
        ELSE Some(new[CHOOSE x \in hits : \A y \in hits : y <= x])

(* new.iter().find(..): the first incoming Result with the same ids. *)
FindResult(new, orig_result) ==
    LET hits == {i \in 1..Len(new) : ResultIds(new[i]) = ResultIds(orig_result)}
    IN  IF hits = {} THEN None ELSE Some(new[Min(hits)])

(* The closure matching an incoming Analysis to an accumulator Analysis. *)
AnalysisMatches(orig_analysis, other) ==
    IF IsSome(orig_analysis.score) /\ IsSome(other.score)
    THEN /\ other.resource_id = orig_analysis.resource_id
         /\ Unwrap(orig_analysis.score) = Unwrap(other.score)
    ELSE FALSE

(* found_new_result.analyses.iter().find(..) *)
FindAnalysis(analyses, orig_analysis) ==
    LET hits == {i \in 1..Len(analyses) : AnalysisMatches(orig_analysis, analyses[i])}
    IN  IF hits = {} THEN None ELSE Some(analyses[Min(hits)])

(* Mutant of ExtendEdgeBindings: the keys of the incoming Analysis are      *)
(* looped over as well, so a key of the incoming side alone is inserted.     *)
ExtendEdgeBindingsBothKeys(orig_ebs, other_ebs) ==
    [key \in DOMAIN orig_ebs \cup DOMAIN other_ebs |->
        IF key \notin DOMAIN orig_ebs THEN other_ebs[key]
        ELSE IF key \in DOMAIN other_ebs THEN orig_ebs[key] \o other_ebs[key]
        ELSE orig_ebs[key]]

(* The loop over the accumulator Analysis's edge-binding keys. *)
ExtendEdgeBindings(orig_ebs, other_ebs) ==
    [key \in DOMAIN orig_ebs |->
        IF key \in DOMAIN other_ebs THEN orig_ebs[key] \o other_ebs[key] ELSE orig_ebs[key]]

MergeAnalysis(orig_analysis, found_new_result) ==
    LET other == FindAnalysis(found_new_result.analyses, orig_analysis)
    IN  IF IsSome(other)
        THEN [orig_analysis EXCEPT
                !.edge_bindings = ExtendEdgeBindings(@, Unwrap(other).edge_bindings)]
        ELSE orig_analysis

(* new_nb.iter().find(|nnb| nnb.id == onb.id), then extend and dedup. *)
MergeNodeBinding(onb, new_nb) ==
    LET hits == {i \in 1..Len(new_nb) : new_nb[i].id = onb.id}
        ext  == IF hits = {} THEN onb.attributes
                ELSE onb.attributes \o new_nb[Min(hits)].attributes
    IN  [onb EXCEPT !.attributes = Dedup(ext)]

(* The loop over the found Result's query-node keys. *)
MergeNodeBindings(orig_nbs, new_nbs) ==
    [key \in DOMAIN orig_nbs |->
        IF key \in DOMAIN new_nbs
        THEN [i \in 1..Len(orig_nbs[key]) |-> MergeNodeBinding(orig_nbs[key][i], new_nbs[key])]
        ELSE orig_nbs[key]]

(* The body of original.iter_mut().for_each(..) *)
MergeResult(orig_result, new) ==
    LET found == FindResult(new, orig_result)
    IN  IF IsSome(found)
        THEN [node_bindings |-> MergeNodeBindings(orig_result.node_bindings,
                                                  Unwrap(found).node_bindings),
              analyses      |-> [i \in 1..Len(orig_result.analyses) |->
                                    MergeAnalysis(orig_result.analyses[i], Unwrap(found))]]
        ELSE orig_result

(* Mutant of merge_message_results: incoming Results that match no          *)
(* accumulator Result are appended.                                          *)
merge_message_results_appending(l, r) ==
    IF IsSome(r)
    THEN IF IsSome(l)
         THEN Some([i \in 1..Len(Unwrap(l)) |-> MergeResult(Unwrap(l)[i], Unwrap(r))]
                   \o SelectSeq(Unwrap(r),
                        LAMBDA q : \A i \in 1..Len(Unwrap(l)) :
                                      ResultIds(Unwrap(l)[i]) # ResultIds(q)))
         ELSE r
    ELSE l

merge_message_results(l, r) ==
    IF IsSome(r)
    THEN IF IsSome(l)
         THEN Some([i \in 1..Len(Unwrap(l)) |-> MergeResult(Unwrap(l)[i], Unwrap(r))])
         ELSE r
    ELSE l

----------------------------------------------------------------------------
(* #[derive(Merge)] for Message *)

(* Mutant of MessageMerge: query_graph merged with overwrite_none. *)
MessageMergeFillQueryGraph(l, r) ==
    [results          |-> merge_message_results(l.results, r.results),
     query_graph      |-> OverwriteNone(l.query_graph, r.query_graph),
     knowledge_graph  |-> merge_knowledge_graph(l.knowledge_graph, r.knowledge_graph),
     auxiliary_graphs |-> merge_message_auxiliary_graphs(l.auxiliary_graphs,
                                                         r.auxiliary_graphs)]

MessageMerge(l, r) ==
    [results          |-> merge_message_results(l.results, r.results),
     query_graph      |-> l.query_graph,
     knowledge_graph  |-> merge_knowledge_graph(l.knowledge_graph, r.knowledge_graph),
     auxiliary_graphs |-> merge_message_auxiliary_graphs(l.auxiliary_graphs,
                                                         r.auxiliary_graphs)]

(* Whether Message::merge panics. *)
MessageMergePanics(l, r) == KnowledgeGraphPanics(l.knowledge_graph, r.knowledge_graph)

----------------------------------------------------------------------------
(* Constructors.  Fields the merge never reads or writes and that take part *)
(* in nothing but derived equality (Attribute.value_type_id,                *)
(* attribute_source, value_url, description, attributes) are represented by *)
(* Attribute.value, which is such a field as well.                          *)

Attribute(type_id, name, value) ==
    [attribute_type_id |-> type_id, original_attribute_name |-> name, value |-> value]

Qualifier(type_id, value) == [qualifier_type_id |-> type_id, qualifier_value |-> value]

(* ResourceRoleEnum in declaration order, which is its derived Ord. *)
PrimaryKnowledgeSource == 1
AggregatorKnowledgeSource == 2
SupportingDataSource == 3

RetrievalSource(id, role, upstream) ==
    [resource_id |-> id, resource_role |-> role,
     upstream_resource_ids |-> upstream, source_record_urls |-> None]

Node(name, categories, attributes) ==
    [name |-> name, categories |-> categories, attributes |-> attributes, is_set |-> None]

Edge(subject, object, sources, attributes, qualifiers) ==
    [subject |-> subject, predicate |-> "biolink:related_to", object |-> object,
     sources |-> sources, attributes |-> attributes, qualifiers |-> qualifiers]

KnowledgeGraph(edges, nodes) == [edges |-> edges, nodes |-> nodes]

NodeBinding(id, attributes) == [id |-> id, query_id |-> None, attributes |-> attributes]

EdgeBinding(id) == [id |-> id, attributes |-> <<>>]

Analysis(resource_id, score, edge_bindings) ==
    [resource_id |-> resource_id, score |-> score, scoring_method |-> None,
     support_graphs |-> None, edge_bindings |-> edge_bindings, attributes |-> None]

Result(node_bindings, analyses) == [node_bindings |-> node_bindings, analyses |-> analyses]

AuxiliaryGraph(edges, attributes) == [edges |-> edges, attributes |-> attributes]

QueryGraph(edges, nodes) == [edges |-> edges, nodes |-> nodes]

Message(results, query_graph, knowledge_graph, auxiliary_graphs) ==
    [results |-> results, query_graph |-> query_graph,
     knowledge_graph |-> knowledge_graph, auxiliary_graphs |-> auxiliary_graphs]

(* Message::new *)
NewMessage == Message(None, None, None, None)

----------------------------------------------------------------------------
(* The provider responses the fold draws from. *)

(* Three attributes under one attribute_type_id: two without               *)
(* original_attribute_name that differ in value, one with it.              *)
attrPlain  == Attribute(1, None, 1)
attrOther  == Attribute(1, None, 2)
attrNamed  == Attribute(1, Some(1), 1)

qualA == Qualifier(1, 1)
qualB == Qualifier(1, 2)
qualC == Qualifier(2, 1)

srcKp0     == RetrievalSource(1, PrimaryKnowledgeSource, None)
srcKp0Up   == RetrievalSource(1, PrimaryKnowledgeSource, Some(<<2>>))
srcKp1     == RetrievalSource(2, AggregatorKnowledgeSource, None)

queryA ==
    QueryGraph([e01 |-> [subject |-> "n0", object |-> "n1"]],
               [n0 |-> [ids |-> Some(<<"MONDO:1234">>)], n1 |-> [ids |-> None]])
queryB ==
    QueryGraph([e01 |-> [subject |-> "n1", object |-> "n0"]],
               [n0 |-> [ids |-> None], n1 |-> [ids |-> Some(<<"drug1">>)]])

(* Results *)
bindDrug(disease, attrs) ==
    [disease |-> <<NodeBinding(disease, attrs)>>, drug |-> <<NodeBinding("drug1", <<>>)>>]

oneEdge(id) == "_1" :> <<EdgeBinding(id)>>

resUnscoredE1 == Result(bindDrug("MONDO:1234", <<>>), <<Analysis("infores:kp0", None, oneEdge("e1"))>>)
resUnscoredE2 == Result(bindDrug("MONDO:1234", <<>>), <<Analysis("infores:kp0", None, oneEdge("e2"))>>)
resScoredE1   == Result(bindDrug("MONDO:1234", <<attrPlain>>),
                        <<Analysis("infores:kp0", Some(1), oneEdge("e1"))>>)
resScoredE2   == Result(bindDrug("MONDO:1234", <<attrOther, attrPlain>>),
                        <<Analysis("infores:kp0", Some(1), oneEdge("e2"))>>)
resOther      == Result(bindDrug("MONDO:4321", <<>>), <<Analysis("infores:kp1", Some(2), oneEdge("e3"))>>)

(* Knowledge graphs *)
kgA == KnowledgeGraph(
         [E1 |-> Edge("N1", "N2", <<srcKp0, srcKp0Up>>, Some(<<attrPlain, attrOther>>),
                      Some(<<qualA, qualB>>))],
         [N1 |-> Node(Some(1), <<1>>, <<attrPlain, attrOther>>)])
kgB == KnowledgeGraph(
         [E1 |-> Edge("N1", "N2", <<srcKp0>>, Some(<<attrPlain>>), Some(<<qualA>>))],
         [N1 |-> Node(Some(2), <<2, 1>>, <<attrPlain>>)])
kgC == KnowledgeGraph(
         [E2 |-> Edge("N2", "N1", <<srcKp1>>, None, None)],
         [N1 |-> Node(None, <<>>, <<attrNamed>>), N2 |-> Node(None, <<2>>, <<>>)])
kgD == KnowledgeGraph(
         [E1 |-> Edge("N2", "N1", <<srcKp1>>, Some(<<attrNamed>>), Some(<<qualC>>))],
         EmptyMap)

(* Auxiliary graphs *)
auxA == [X1 |-> AuxiliaryGraph(<<"e1">>, <<attrPlain>>)]
auxB == [X1 |-> AuxiliaryGraph(<<"e2">>, <<attrOther>>), X2 |-> AuxiliaryGraph(<<"e3">>, <<>>)]

Messages ==
    { NewMessage,
      Message(Some(<<resUnscoredE1>>), Some(queryA), None, None),
      Message(Some(<<resUnscoredE2, resOther>>), Some(queryA), None, None),
      Message(Some(<<resScoredE1>>), None, None, Some(auxA)),
      Message(Some(<<resScoredE2>>), Some(queryB), None, Some(auxB)),
      Message(Some(<<resOther>>), None, Some(kgC), None),
      Message(Some(<<>>), None, Some(kgD), None),
      Message(None, Some(queryA), Some(kgA), Some(auxA)),
      Message(None, Some(queryB), Some(kgB), None),
      Message(None, None, Some(kgC), Some(auxB)) }

(* How many merges one fold makes. *)
MaxMerges == 2

----------------------------------------------------------------------------
(* The fold: an accumulator and Message::merge calls on it. *)

Init ==
    /\ first \in Messages
    /\ left = first
    /\ prev = first
    /\ inputs = <<>>
    /\ panicked = FALSE
    /\ stdsort \in {"shift_left", "insert_head"}
    /\ cKind = "attributes"
    /\ cIn = <<>>
    /\ cPerm = <<>>
    /\ cOut = <<>>
    /\ cOutPerm = <<>>
    /\ cAgain = <<>>
    /\ cPc = "idle"
    /\ sEvidence = <<>>
    /\ sScore = <<>>
    /\ sPc = "idle"

(* left.merge(right): a panic unwinds out of the call and ends the fold. *)
Merge(right) ==
    /\ ~panicked
    /\ Len(inputs) < MaxMerges
    /\ prev' = left
    /\ inputs' = Append(inputs, right)
    /\ IF MessageMergePanics(left, right)
       THEN /\ panicked' = TRUE
            /\ left' = left
       ELSE /\ panicked' = FALSE
            /\ left' = MessageMerge(left, right)
    /\ UNCHANGED <<first, stdsort>>
    /\ UNCHANGED canonVars
    /\ UNCHANGED scoreVars

Next == \E right \in Messages : Merge(right)

Spec == Init /\ [][Next]_vars

----------------------------------------------------------------------------
(* Properties of the fold *)

Merged == Len(inputs) >= 1 /\ ~panicked
Incoming == inputs[Len(inputs)]

(* "Up to canonicalization": the canonicalizer's sort-then-dedup applied to *)
(* every attribute, category, source and qualifier collection of a Message. *)
CanonAttributes(v) == SortDedup("attributes", v)
CanonOptional(kind, o) == IF IsSome(o) THEN Some(SortDedup(kind, Unwrap(o))) ELSE o
CanonNode(n) ==
    [n EXCEPT !.categories = SortDedup("categories", @), !.attributes = CanonAttributes(@)]
CanonEdge(e) ==
    [e EXCEPT !.sources = SortDedup("sources", @),
              !.attributes = CanonOptional("attributes", @),
              !.qualifiers = CanonOptional("qualifiers", @)]
CanonKnowledgeGraph(kg) ==
    [edges |-> [k \in DOMAIN kg.edges |-> CanonEdge(kg.edges[k])],
     nodes |-> [k \in DOMAIN kg.nodes |-> CanonNode(kg.nodes[k])]]
CanonResult(r) ==
    [r EXCEPT !.node_bindings =
        [k \in DOMAIN @ |->
            [i \in 1..Len(@[k]) |-> [@[k][i] EXCEPT !.attributes = CanonAttributes(@)]]]]
CanonMessage(m) ==
    [results          |-> IF IsSome(m.results)
                          THEN Some([i \in 1..Len(Unwrap(m.results)) |->
                                        CanonResult(Unwrap(m.results)[i])])
                          ELSE None,
     query_graph      |-> m.query_graph,
     knowledge_graph  |-> IF IsSome(m.knowledge_graph)
                          THEN Some(CanonKnowledgeGraph(Unwrap(m.knowledge_graph)))
                          ELSE None,
     auxiliary_graphs |-> IF IsSome(m.auxiliary_graphs)
                          THEN Some([k \in DOMAIN Unwrap(m.auxiliary_graphs) |->
                                       [Unwrap(m.auxiliary_graphs)[k] EXCEPT
                                           !.attributes = CanonAttributes(@)]])
                          ELSE None]

(* The accumulator after folding a non-empty sequence of Messages, the     *)
(* first being the initial accumulator.                                    *)
RECURSIVE Fold(_)
Fold(ms) ==
    IF Len(ms) = 1 THEN ms[1]
    ELSE MessageMerge(Fold(SubSeq(ms, 1, Len(ms) - 1)), ms[Len(ms)])

Orderings(ms) ==
    {[i \in 1..Len(ms) |-> ms[p[i]]] : p \in Permutations(1..Len(ms))}

(* C1: folding a fixed multiset of Messages in any order gives the same    *)
(* accumulator up to canonicalization; in particular merge(A,B) and        *)
(* merge(B,A) agree up to canonicalization.  The Messages of one fold      *)
(* answer one question: they carry the same query_graph.                   *)
SameQuestion == \A i \in 1..Len(inputs) : inputs[i].query_graph = first.query_graph

C1_FoldOrderIndependent ==
    (Merged /\ SameQuestion) =>
        \A ms \in Orderings(<<first>> \o inputs) :
            CanonMessage(Fold(ms)) = CanonMessage(left)

(* C2: merge is associative up to canonicalization:                        *)
(* canon(merge(merge(A,B),C)) = canon(merge(A,merge(B,C))).                *)
C2_MergeAssociative ==
    (Len(inputs) = 2 /\ ~panicked) =>
        CanonMessage(left) =
            CanonMessage(MessageMerge(first, MessageMerge(inputs[1], inputs[2])))

(* The accumulator Result i had an incoming Result of the same identity. *)
HasResults == Merged /\ IsSome(prev.results) /\ IsSome(Incoming.results)
PrevResults == Unwrap(prev.results)
LeftResults == Unwrap(left.results)
IncomingResults == Unwrap(Incoming.results)

(* Two Analyses are the same explanation: resource_id equal and score      *)
(* equal, two absent scores being equal.                                   *)
SameExplanation(a, b) == a.resource_id = b.resource_id /\ a.score = b.score

(* C3: in identity-equal Results an accumulator Analysis matches an        *)
(* incoming Analysis iff resource_id and score are equal, two absent       *)
(* scores counting as equal; the matched accumulator Analysis then holds   *)
(* the incoming edge bindings after its own under every shared key, and an *)
(* unmatched one keeps its edge bindings.                                  *)
C3_AnalysisMatchIncludesAbsentScores ==
    HasResults =>
        \A i \in 1..Len(PrevResults) :
            LET found == FindResult(IncomingResults, PrevResults[i])
            IN  IsSome(found) =>
                  \A j \in 1..Len(PrevResults[i].analyses) :
                    LET orig == PrevResults[i].analyses[j]
                        hits == {n \in 1..Len(Unwrap(found).analyses) :
                                    SameExplanation(orig, Unwrap(found).analyses[n])}
                        now  == LeftResults[i].analyses[j].edge_bindings
                    IN  IF hits = {}
                        THEN now = orig.edge_bindings
                        ELSE now = ExtendEdgeBindings(orig.edge_bindings,
                                     Unwrap(found).analyses[Min(hits)].edge_bindings)

(* C4: when the accumulator already has results and some incoming Result   *)
(* has the identity of no accumulator Result, the merge makes the          *)
(* accumulator's result count strictly greater.                            *)
C4_ResultCountGrows ==
    ( /\ HasResults
      /\ Len(PrevResults) > 0
      /\ \E n \in 1..Len(IncomingResults) :
            \A i \in 1..Len(PrevResults) :
                ResultIds(PrevResults[i]) # ResultIds(IncomingResults[n]) )
    => Len(LeftResults) > Len(PrevResults)

(* Both sides of the latest merge carried a knowledge graph. *)
HasGraphs == Merged /\ IsSome(prev.knowledge_graph) /\ IsSome(Incoming.knowledge_graph)
PrevGraph == Unwrap(prev.knowledge_graph)
LeftGraph == Unwrap(left.knowledge_graph)
IncomingGraph == Unwrap(Incoming.knowledge_graph)

Elements(v) == {v[i] : i \in 1..Len(v)}
DuplicateFree(v) == \A i, j \in 1..Len(v) : i < j => v[i] # v[j]
SortedBy(kind, v) == \A i, j \in 1..Len(v) : i < j => Compare(kind, v[i], v[j]) # "Greater"

(* C5: a node id on both sides of a KnowledgeGraph merge yields one Node   *)
(* whose attributes are the sorted, duplicate-free union of both sides'    *)
(* attributes and whose categories are the sorted, duplicate-free union of *)
(* both sides' categories; the accumulator's node is not replaced.         *)
C5_NodeCollisionIsSortedUnion ==
    HasGraphs =>
        \A k \in DOMAIN PrevGraph.nodes \cap DOMAIN IncomingGraph.nodes :
            LET a == PrevGraph.nodes[k]
                b == IncomingGraph.nodes[k]
                n == LeftGraph.nodes[k]
            IN  /\ Elements(n.attributes) = Elements(a.attributes) \cup Elements(b.attributes)
                /\ DuplicateFree(n.attributes)
                /\ SortedBy("attributes", n.attributes)
                /\ Elements(n.categories) = Elements(a.categories) \cup Elements(b.categories)
                /\ DuplicateFree(n.categories)
                /\ SortedBy("categories", n.categories)
                /\ (Elements(a.attributes) \cup Elements(b.attributes) # {}
                        => n.attributes # <<>>)
                /\ (IsSome(a.name) => n.name = a.name)

NodeKeys(m) ==
    IF IsSome(m.knowledge_graph) THEN DOMAIN Unwrap(m.knowledge_graph).nodes ELSE {}
EdgeKeys(m) ==
    IF IsSome(m.knowledge_graph) THEN DOMAIN Unwrap(m.knowledge_graph).edges ELSE {}

(* C6: the accumulator's node keys and edge keys are the union of those of *)
(* the initial accumulator and of every Message merged so far; a key only  *)
(* the incoming Message has is inserted with the incoming value.           *)
C6_KeysAreUnion ==
    ~panicked =>
        /\ NodeKeys(left) = NodeKeys(first) \cup UNION {NodeKeys(inputs[i]) : i \in 1..Len(inputs)}
        /\ EdgeKeys(left) = EdgeKeys(first) \cup UNION {EdgeKeys(inputs[i]) : i \in 1..Len(inputs)}
        /\ Merged =>
              /\ \A k \in NodeKeys(Incoming) \ NodeKeys(prev) :
                    LeftGraph.nodes[k] = IncomingGraph.nodes[k]
              /\ \A k \in EdgeKeys(Incoming) \ EdgeKeys(prev) :
                    LeftGraph.edges[k] = IncomingGraph.edges[k]

(* Witness of C6: the second merge of a fold that began without a          *)
(* knowledge graph brings a new node key, a node key the accumulator has,  *)
(* and no value for an edge key the accumulator has.                       *)
C6_Witness ==
    /\ Len(inputs) = 2
    /\ ~panicked
    /\ IsNone(first.knowledge_graph)
    /\ NodeKeys(Incoming) \ NodeKeys(prev) # {}
    /\ NodeKeys(Incoming) \cap NodeKeys(prev) # {}
    /\ EdgeKeys(prev) \ EdgeKeys(Incoming) # {}

IsOption(o) == Len(o) \in {0, 1}

Mixed(S) ==
    /\ \E a \in S : IsSome(a.original_attribute_name)
    /\ \E a \in S : IsNone(a.original_attribute_name)

C8_QueryGraphUnchanged ==
    /\ left.query_graph = first.query_graph
    /\ left.query_graph = prev.query_graph

(* Witness of C8: a merge of two Messages with different query graphs. *)
C8_Witness ==
    /\ Merged
    /\ IsSome(prev.query_graph)
    /\ IsSome(Incoming.query_graph)
    /\ prev.query_graph # Incoming.query_graph

KnowledgeGraphLists(kg) ==
    {kg.nodes[k].attributes : k \in DOMAIN kg.nodes}
        \cup {kg.edges[k].sources : k \in DOMAIN kg.edges}
        \cup {Unwrap(kg.edges[k].attributes) :
                 k \in {x \in DOMAIN kg.edges : IsSome(kg.edges[x].attributes)}}
        \cup {Unwrap(kg.edges[k].qualifiers) :
                 k \in {x \in DOMAIN kg.edges : IsSome(kg.edges[x].qualifiers)}}

MessageLists(m) ==
    IF IsSome(m.knowledge_graph) THEN KnowledgeGraphLists(Unwrap(m.knowledge_graph)) ELSE {}

(* C9: when every attribute, qualifier and source list of every input      *)
(* Message is duplicate-free, so is every Node.attributes,                 *)
(* Edge.attributes, Edge.qualifiers and Edge.sources list of the           *)
(* accumulator's knowledge graph after any sequence of merges.             *)
C9_ListsStayDuplicateFree ==
    ( /\ ~panicked
      /\ \A v \in MessageLists(first) : DuplicateFree(v)
      /\ \A i \in 1..Len(inputs) : \A v \in MessageLists(inputs[i]) : DuplicateFree(v) )
    => \A v \in MessageLists(left) : DuplicateFree(v)

----------------------------------------------------------------------------
(* The canonicalizer on its own: the sort-then-dedup step of each          *)
(* append-and-canonicalize strategy, run on one collection by merging it   *)
(* with an empty one.                                                      *)

Canonicalize(kind, v) ==
    CASE kind = "attributes"          -> merge_attributes(v, <<>>)
      [] kind = "optional_attributes" -> Unwrap(merge_optional_attributes(Some(v), Some(<<>>)))
      [] kind = "qualifiers"          -> Unwrap(merge_edge_qualifiers(Some(v), Some(<<>>)))
      [] kind = "sources"             -> merge_edge_sources(v, <<>>)
      [] kind = "categories"          -> merge_node_categories(v, <<>>)

Kinds == {"attributes", "optional_attributes", "qualifiers", "sources", "categories"}

(* The entries a collection of each kind is drawn from. *)
Entries(kind) ==
    CASE kind \in {"attributes", "optional_attributes"} -> {attrPlain, attrOther, attrNamed}
      [] kind = "qualifiers" -> {qualA, qualB, qualC}
      [] kind = "sources"    -> {srcKp0, srcKp0Up, srcKp1}
      [] kind = "categories" -> {1, 2, 3}

(* The longest collection canonicalized. *)
MaxLen == 3

Collections(kind) == UNION {[1..n -> Entries(kind)] : n \in 0..MaxLen}

CanonInit ==
    /\ first = NewMessage
    /\ left = NewMessage
    /\ prev = NewMessage
    /\ inputs = <<>>
    /\ panicked = FALSE
    /\ stdsort \in {"shift_left", "insert_head"}
    /\ cKind \in Kinds
    /\ cIn \in Collections(cKind)
    /\ cPerm \in Orderings(cIn)
    /\ cOut = <<>>
    /\ cOutPerm = <<>>
    /\ cAgain = <<>>
    /\ cPc = "start"
    /\ sEvidence = <<>>
    /\ sScore = <<>>
    /\ sPc = "idle"

(* Canonicalize the collection and its other ordering. *)
CanonApply ==
    /\ cPc = "start"
    /\ cOut' = Canonicalize(cKind, cIn)
    /\ cOutPerm' = Canonicalize(cKind, cPerm)
    /\ cPc' = "applied"
    /\ UNCHANGED <<cKind, cIn, cPerm, cAgain, stdsort>>
    /\ UNCHANGED mergeVars
    /\ UNCHANGED scoreVars

(* Canonicalize a permutation of the canonical form. *)
CanonReapply ==
    /\ cPc = "applied"
    /\ \E p \in Orderings(cOut) : cAgain' = Canonicalize(cKind, p)
    /\ cPc' = "reapplied"
    /\ UNCHANGED <<cKind, cIn, cPerm, cOut, cOutPerm, stdsort>>
    /\ UNCHANGED mergeVars
    /\ UNCHANGED scoreVars

CanonNext == CanonApply \/ CanonReapply

CanonSpec == CanonInit /\ [][CanonNext]_vars

(* C10: canonicalization is permutation-invariant and idempotent: two      *)
(* orderings of one collection canonicalize to the same list, and any      *)
(* permutation of a canonical list canonicalizes to that list again.       *)
C10_CanonicalizationInvariant ==
    /\ cPc \in {"applied", "reapplied"} => cOut = cOutPerm
    /\ cPc = "reapplied" => cAgain = cOut


----------------------------------------------------------------------------
(* Composite Scorer: compute_composite_score.  Its code is not part of      *)
(* src/src/lib.rs; it is modelled from the contract in spec.md section 4.4. *)
(*                                                                          *)
(* An f64 is an exact fraction [n, d] in lowest terms with d > 0, or NaN,   *)
(* written 0/0; rounding is not modelled.  A sample size is a count, so it  *)
(* is never negative, and a nonzero value is never divided by zero.         *)

NaN == [n |-> 0, d |-> 0]

Abs(x) == IF x < 0 THEN -x ELSE x

RECURSIVE GCD(_, _)
GCD(a, b) == IF b = 0 THEN a ELSE GCD(b, a % b)

Rat(n, d) ==
    LET g == GCD(Abs(n), Abs(d))
        s == IF d < 0 THEN -1 ELSE 1
    IN  [n |-> (s * n) \div g, d |-> (s * d) \div g]

FromInt(i) == [n |-> i, d |-> 1]

FAdd(a, b) == IF a = NaN \/ b = NaN THEN NaN ELSE Rat(a.n * b.d + b.n * a.d, a.d * b.d)

FMul(a, b) == IF a = NaN \/ b = NaN THEN NaN ELSE Rat(a.n * b.n, a.d * b.d)

(* 0.0 / 0.0 is NaN. *)
FDiv(a, b) ==
    IF a = NaN \/ b = NaN THEN NaN
    ELSE IF b.n = 0 THEN (IF a.n = 0 THEN NaN ELSE [n |-> a.n, d |-> 0])
    ELSE Rat(a.n * b.d, a.d * b.n)

Evidence(log_odds_ratio, total_sample_size) ==
    [resource_id |-> "infores:kp0", knowledge_graph_edge_id |-> "e1",
     log_odds_ratio |-> log_odds_ratio, total_sample_size |-> total_sample_size]

(* The entries with both fields present. *)
HasBoth(e) == IsSome(e.log_odds_ratio) /\ IsSome(e.total_sample_size)

RECURSIVE FSum(_)
FSum(v) == IF Len(v) = 0 THEN FromInt(0) ELSE FAdd(v[1], FSum(Tail(v)))

(* Mutant of compute_composite_score: every included entry weighs the same. *)
compute_unweighted_score(evidence) ==
    LET both    == SelectSeq(evidence, HasBoth)
        weights == [i \in 1..Len(both) |-> FDiv(FromInt(1), FromInt(Len(both)))]
        terms   == [i \in 1..Len(both) |-> FMul(weights[i], Unwrap(both[i].log_odds_ratio))]
    IN  FDiv(FSum(terms), FSum(weights))

(* weight_i = total_sample_size_i / sum of total_sample_size_j,             *)
(* score = sum of weight_i * log_odds_ratio_i / sum of weight_i.            *)
compute_composite_score(evidence) ==
    LET both    == SelectSeq(evidence, HasBoth)
        total   == FSum([i \in 1..Len(both) |-> FromInt(Unwrap(both[i].total_sample_size))])
        weights == [i \in 1..Len(both) |->
                        FDiv(FromInt(Unwrap(both[i].total_sample_size)), total)]
        terms   == [i \in 1..Len(both) |-> FMul(weights[i], Unwrap(both[i].log_odds_ratio))]
    IN  FDiv(FSum(terms), FSum(weights))

(* The evidence values a list is drawn from. *)
OddsRatios == {None, Some(FromInt(1)), Some(FromInt(2)), Some(Rat(-1, 2))}
SampleSizes == {None, Some(0), Some(100), Some(300)}
EvidenceEntries == {Evidence(o, n) : o \in OddsRatios, n \in SampleSizes}

(* The longest Evidence list scored. *)
MaxEvidence == 3

EvidenceLists == UNION {[1..n -> EvidenceEntries] : n \in 0..MaxEvidence}

ScoreInit ==
    /\ first = NewMessage
    /\ left = NewMessage
    /\ prev = NewMessage
    /\ inputs = <<>>
    /\ panicked = FALSE
    /\ stdsort = "shift_left"
    /\ cKind = "attributes"
    /\ cIn = <<>>
    /\ cPerm = <<>>
    /\ cOut = <<>>
    /\ cOutPerm = <<>>
    /\ cAgain = <<>>
    /\ cPc = "idle"
    /\ sEvidence \in EvidenceLists
    /\ sScore = None
    /\ sPc = "start"

ScoreApply ==
    /\ sPc = "start"
    /\ sScore' = Some(compute_composite_score(sEvidence))
    /\ sPc' = "scored"
    /\ UNCHANGED <<sEvidence, stdsort>>
    /\ UNCHANGED mergeVars
    /\ UNCHANGED canonVars

ScoreNext == ScoreApply

ScoreSpec == ScoreInit /\ [][ScoreNext]_vars

(* The indices of the entries that carry both fields. *)
Included == {i \in 1..Len(sEvidence) :
                sEvidence[i].log_odds_ratio # None /\ sEvidence[i].total_sample_size # None}

RECURSIVE SumOver(_, _)
SumOver(S, f) ==
    IF S = {} THEN FromInt(0)
    ELSE LET i == CHOOSE x \in S : TRUE IN FAdd(f[i], SumOver(S \ {i}, f))

SampleTotal == SumOver(Included, [i \in Included |-> FromInt(Unwrap(sEvidence[i].total_sample_size))])

WeightedTotal ==
    SumOver(Included, [i \in Included |->
        FMul(FromInt(Unwrap(sEvidence[i].total_sample_size)), Unwrap(sEvidence[i].log_odds_ratio))])

ExampleEvidence == <<Evidence(Some(FromInt(1)), Some(100)), Evidence(Some(FromInt(2)), Some(300))>>

(* C11: compute_composite_score always returns; when the entries carrying   *)
(* both fields have a positive total sample size it returns their           *)
(* sample-size-weighted average of log_odds_ratio, entries missing a field  *)
(* having no influence; [(1.0, 100), (2.0, 300)] gives 1.75.                *)
C11_CompositeScoreIsWeightedAverage ==
    sPc = "scored" =>
        /\ IsSome(sScore)
        /\ SampleTotal.n > 0 => Unwrap(sScore) = FDiv(WeightedTotal, SampleTotal)
        /\ sEvidence = ExampleEvidence => Unwrap(sScore) = [n |-> 7, d |-> 4]

(* A scored list with two included entries of different weight and one      *)
(* entry missing its log_odds_ratio.                                        *)
C11_Witness ==
    /\ sPc = "scored"
    /\ sEvidence = ExampleEvidence \o <<Evidence(None, Some(300))>>
    /\ Unwrap(sScore) = [n |-> 7, d |-> 4]


----------------------------------------------------------------------------
(* Result reconciliation: folds over Messages that carry only results.      *)

(* node_bindings with one disease binding and the given drug bindings. *)
bindDrugs(drugs) ==
    [disease |-> <<NodeBinding("MONDO:1234", <<>>)>>, drug |-> drugs]

kp0Scored(edge_bindings) == Analysis("infores:kp0", Some(1), edge_bindings)

(* Two Results bound to [drug1, drug2]; their Analyses share the key _1.    *)
resPairE1 == Result(bindDrugs(<<NodeBinding("drug1", <<>>), NodeBinding("drug2", <<>>)>>),
                    <<kp0Scored(oneEdge("e1") @@ "_2" :> <<EdgeBinding("e2")>>)>>)
resPairE3 == Result(bindDrugs(<<NodeBinding("drug1", <<>>), NodeBinding("drug2", <<>>)>>),
                    <<kp0Scored(oneEdge("e1") @@ "_3" :> <<EdgeBinding("e3")>>)>>)
(* The same first drug binding, another second one. *)
resPairOther == Result(bindDrugs(<<NodeBinding("drug1", <<>>), NodeBinding("drug3", <<>>)>>),
                       <<kp0Scored(oneEdge("e4"))>>)
(* One drug binding whose id holds a comma. *)
resComma == Result(bindDrugs(<<NodeBinding("drug1,drug2", <<>>)>>), <<kp0Scored(oneEdge("e10"))>>)
(* Two Results bound to [drug1], each with several Analyses. *)
resSoloA == Result(bindDrugs(<<NodeBinding("drug1", <<attrPlain>>)>>),
                   <<kp0Scored(oneEdge("e5")), kp0Scored(oneEdge("e6")),
                     Analysis("infores:kp1", Some(2), oneEdge("e7"))>>)
resSoloB == Result(bindDrugs(<<NodeBinding("drug1", <<attrOther>>)>>),
                   <<Analysis("infores:kp0", Some(2), oneEdge("e9")), kp0Scored(oneEdge("e8"))>>)

Results(v) == Message(Some(v), None, None, None)

ResultMessages ==
    { NewMessage,
      Results(<<>>),
      Results(<<resPairE1>>),
      Results(<<resPairOther, resPairE3>>),
      Results(<<resComma>>),
      Results(<<resSoloA, resSoloB>>),
      Results(<<resSoloB, resPairE1, resSoloA>>),
      Results(<<resSoloB>>) }

ReconcileInit ==
    /\ first \in ResultMessages
    /\ left = first
    /\ prev = first
    /\ inputs = <<>>
    /\ panicked = FALSE
    /\ stdsort \in {"shift_left", "insert_head"}
    /\ cKind = "attributes"
    /\ cIn = <<>>
    /\ cPerm = <<>>
    /\ cOut = <<>>
    /\ cOutPerm = <<>>
    /\ cAgain = <<>>
    /\ cPc = "idle"
    /\ sEvidence = <<>>
    /\ sScore = <<>>
    /\ sPc = "idle"

ReconcileNext == \E right \in ResultMessages : Merge(right)

ReconcileSpec == ReconcileInit /\ [][ReconcileNext]_vars


----------------------------------------------------------------------------
(* Properties of result reconciliation *)

(* The first bound id of every query-node key. *)
FirstIds(r) ==
    [k \in DOMAIN r.node_bindings |->
        IF Len(r.node_bindings[k]) = 0 THEN "" ELSE r.node_bindings[k][1].id]

(* The comma-joined ids of all bindings of every query-node key. *)
JoinedIds(r) ==
    [k \in DOMAIN r.node_bindings |->
        Join([n \in 1..Len(r.node_bindings[k]) |-> r.node_bindings[k][n].id])]

(* The accumulator Result r after the incoming Result q, matched with it,   *)
(* has given it its edge bindings and node-binding attributes.              *)
Contribution(r, q) ==
    [node_bindings |-> MergeNodeBindings(r.node_bindings, q.node_bindings),
     analyses      |-> [j \in 1..Len(r.analyses) |-> MergeAnalysis(r.analyses[j], q)]]

(* The incoming Results with the first ids, resp. the joined ids, of the    *)
(* accumulator Result i.                                                    *)
SameFirstIds(i) ==
    {n \in 1..Len(IncomingResults) : FirstIds(IncomingResults[n]) = FirstIds(PrevResults[i])}
SameJoinedIds(i) ==
    {n \in 1..Len(IncomingResults) : JoinedIds(IncomingResults[n]) = JoinedIds(PrevResults[i])}

(* C12 as claimed: the identity of a Result is the first NodeBinding id of  *)
(* each query-node key, so an accumulator Result is matched with an         *)
(* incoming Result of the same keys and first ids, whatever follows the     *)
(* first binding.                                                           *)
C12_IdentityUsesFirstBindingOnly ==
    HasResults =>
        \A i \in 1..Len(PrevResults) :
            SameFirstIds(i) # {} =>
                LeftResults[i] = Contribution(PrevResults[i], IncomingResults[Min(SameFirstIds(i))])

(* C12 as amended: the identity of a Result is, for each query-node key,    *)
(* the comma-joined ids of all its NodeBindings: an accumulator Result is   *)
(* matched with the first incoming Result of the same keys and joined ids,  *)
(* and with none, staying as it was, when only first ids agree.             *)
C12_IdentityUsesAllBindingIds ==
    HasResults =>
        \A i \in 1..Len(PrevResults) :
            IF SameJoinedIds(i) = {}
            THEN LeftResults[i] = PrevResults[i]
            ELSE LeftResults[i] = Contribution(PrevResults[i], IncomingResults[Min(SameJoinedIds(i))])

(* An accumulator Result met an incoming Result with its first ids but      *)
(* other later ids, and one with all its ids, which changed it.             *)
C12_Witness ==
    /\ HasResults
    /\ \E i \in 1..Len(PrevResults) :
        /\ SameFirstIds(i) \ SameJoinedIds(i) # {}
        /\ SameJoinedIds(i) # {}
        /\ LeftResults[i] # PrevResults[i]


(* C13: when the accumulator holds no Result, its results being absent or   *)
(* an empty list, and the incoming Message has results, the accumulator's   *)
(* results after the merge are the incoming results.                        *)
C13_EmptyAccumulatorAdoptsIncoming ==
    ( /\ Merged
      /\ IsSome(Incoming.results)
      /\ IsNone(prev.results) \/ prev.results = Some(<<>>) )
    => left.results = Incoming.results


(* The incoming results, none when the incoming Message has no results. *)
IncomingOrNone == IF IsSome(Incoming.results) THEN Unwrap(Incoming.results) ELSE <<>>

(* The incoming Results with the identity of the accumulator Result i. *)
IdentityEqual(i) ==
    {n \in 1..Len(IncomingOrNone) : JoinedIds(IncomingOrNone[n]) = JoinedIds(PrevResults[i])}

(* Both scores present and equal, and the same resource_id. *)
SameScoredExplanation(a, b) ==
    /\ a.resource_id = b.resource_id
    /\ a.score # None
    /\ a.score = b.score

(* v with the attributes of every binding blanked, resp. a with its edge    *)
(* bindings blanked.                                                        *)
WithoutAttributes(v) == [n \in 1..Len(v) |-> [v[n] EXCEPT !.attributes = <<>>]]
WithoutEdgeLists(a) == [a EXCEPT !.edge_bindings = [k \in DOMAIN a.edge_bindings |-> <<>>]]

ScoredMatches(a, q) == {c \in 1..Len(q.analyses) : SameScoredExplanation(a, q.analyses[c])}

(* C15: for an accumulator Analysis and the incoming Analysis matched with  *)
(* it (same resource_id, both scores present and equal, in the identity-    *)
(* equal incoming Result), the accumulator keeps its query-edge keys; under *)
(* a key of both its list is its list before the merge followed by the      *)
(* whole incoming list, duplicates kept; under a key of its own alone the   *)
(* list is unchanged.                                                       *)
C15_EdgeBindingsAppended ==
    HasResults =>
        \A i \in 1..Len(PrevResults) :
            IdentityEqual(i) # {} =>
                LET q == IncomingResults[Min(IdentityEqual(i))]
                IN  \A j \in 1..Len(PrevResults[i].analyses) :
                        LET a   == PrevResults[i].analyses[j]
                            now == LeftResults[i].analyses[j].edge_bindings
                        IN  ScoredMatches(a, q) # {} =>
                                LET b == q.analyses[Min(ScoredMatches(a, q))]
                                IN  /\ DOMAIN now = DOMAIN a.edge_bindings
                                    /\ \A k \in DOMAIN a.edge_bindings :
                                        IF k \in DOMAIN b.edge_bindings
                                        THEN now[k] = a.edge_bindings[k] \o b.edge_bindings[k]
                                        ELSE now[k] = a.edge_bindings[k]

(* A matched pair of Analyses with a shared key whose lists hold the same   *)
(* EdgeBinding, which is kept twice, a key of the incoming Analysis alone   *)
(* and a key of the accumulator Analysis alone.                             *)
C15_Witness ==
    /\ HasResults
    /\ \E i \in 1..Len(PrevResults) :
        /\ IdentityEqual(i) # {}
        /\ \E j \in 1..Len(PrevResults[i].analyses) :
            LET q   == IncomingResults[Min(IdentityEqual(i))]
                a   == PrevResults[i].analyses[j]
                now == LeftResults[i].analyses[j].edge_bindings
            IN  /\ ScoredMatches(a, q) # {}
                /\ LET b == q.analyses[Min(ScoredMatches(a, q))]
                   IN  /\ DOMAIN b.edge_bindings \ DOMAIN a.edge_bindings # {}
                       /\ DOMAIN a.edge_bindings \ DOMAIN b.edge_bindings # {}
                       /\ \E k \in DOMAIN a.edge_bindings \cap DOMAIN b.edge_bindings :
                            /\ Len(b.edge_bindings[k]) > 0
                            /\ ~DuplicateFree(now[k])


(* C16: in identity-equal Results, under a query-node key of both, an       *)
(* accumulator NodeBinding with an incoming NodeBinding of the same id      *)
(* keeps its id, and its attributes after the merge hold every attribute    *)
(* of either side exactly once.                                             *)
C16_NodeBindingAttributesAreUnion ==
    HasResults =>
        \A i \in 1..Len(PrevResults) :
            IdentityEqual(i) # {} =>
                LET q == IncomingResults[Min(IdentityEqual(i))]
                IN  \A k \in DOMAIN PrevResults[i].node_bindings \cap DOMAIN q.node_bindings :
                        \A b \in 1..Len(PrevResults[i].node_bindings[k]) :
                            LET old  == PrevResults[i].node_bindings[k][b]
                                new  == LeftResults[i].node_bindings[k][b]
                                same == {c \in 1..Len(q.node_bindings[k]) :
                                            q.node_bindings[k][c].id = old.id}
                            IN  same # {} =>
                                    /\ new.id = old.id
                                    /\ Elements(new.attributes) =
                                         Elements(old.attributes) \cup
                                         Elements(q.node_bindings[k][Min(same)].attributes)
                                    /\ DuplicateFree(new.attributes)


----------------------------------------------------------------------------
(* Provenance: folds over Messages whose knowledge graph holds edge E1 with *)
(* a source list in which no (resource_id, resource_role) repeats.          *)

srcKp0Urls == [srcKp0 EXCEPT !.source_record_urls = Some(<<1>>)]

sourcedEdge(sources) == Edge("N1", "N2", sources, None, None)

Graph(edges) == Message(None, None, Some(KnowledgeGraph(edges, EmptyMap)), None)

GraphMessages ==
    { NewMessage,
      Graph([E1 |-> sourcedEdge(<<srcKp0>>)]),
      Graph([E1 |-> sourcedEdge(<<srcKp0Up>>)]),
      Graph([E1 |-> sourcedEdge(<<srcKp0Urls>>)]),
      Graph([E1 |-> sourcedEdge(<<srcKp1>>)]),
      Graph([E1 |-> sourcedEdge(<<srcKp1, srcKp0>>), E2 |-> sourcedEdge(<<srcKp0Up>>)]) }

GraphInit ==
    /\ first \in GraphMessages
    /\ left = first
    /\ prev = first
    /\ inputs = <<>>
    /\ panicked = FALSE
    /\ stdsort \in {"shift_left", "insert_head"}
    /\ cKind = "attributes"
    /\ cIn = <<>>
    /\ cPerm = <<>>
    /\ cOut = <<>>
    /\ cOutPerm = <<>>
    /\ cAgain = <<>>
    /\ cPc = "idle"
    /\ sEvidence = <<>>
    /\ sScore = <<>>
    /\ sPc = "idle"

GraphNext == \E right \in GraphMessages : Merge(right)

GraphSpec == GraphInit /\ [][GraphNext]_vars

(* The uniqueness key of a RetrievalSource. *)
SourceKey(s) == <<s.resource_id, s.resource_role>>
SourceKeys(v) == {SourceKey(v[i]) : i \in 1..Len(v)}
KeyUnique(v) == \A i, j \in 1..Len(v) : i < j => SourceKey(v[i]) # SourceKey(v[j])

(* C17: when both sides hold an Edge under one key, each with at most one   *)
(* source per (resource_id, resource_role), the merged Edge.sources holds   *)
(* the keys of both sides; for a key of both it holds exactly one source,   *)
(* whose upstream_resource_ids and source_record_urls are the               *)
(* accumulator's, filled from the incoming source where absent.             *)
C17_SourcesUnifyByKey ==
    HasGraphs =>
        \A e \in DOMAIN PrevGraph.edges \cap DOMAIN IncomingGraph.edges :
            LET a == PrevGraph.edges[e].sources
                b == IncomingGraph.edges[e].sources
                n == LeftGraph.edges[e].sources
            IN  (KeyUnique(a) /\ KeyUnique(b)) =>
                    /\ SourceKeys(n) = SourceKeys(a) \cup SourceKeys(b)
                    /\ \A i \in 1..Len(a), j \in 1..Len(b) :
                        SourceKey(a[i]) = SourceKey(b[j]) =>
                            LET hits == {m \in 1..Len(n) : SourceKey(n[m]) = SourceKey(a[i])}
                            IN  /\ Cardinality(hits) = 1
                                /\ \A m \in hits :
                                    /\ n[m].upstream_resource_ids =
                                         OverwriteNone(a[i].upstream_resource_ids,
                                                       b[j].upstream_resource_ids)
                                    /\ n[m].source_record_urls =
                                         OverwriteNone(a[i].source_record_urls,
                                                       b[j].source_record_urls)


----------------------------------------------------------------------------
(* Properties of the auxiliary graphs and of attribute lists *)

HasAuxiliaryGraphs == Merged /\ IsSome(prev.auxiliary_graphs) /\ IsSome(Incoming.auxiliary_graphs)
PrevAux == Unwrap(prev.auxiliary_graphs)
LeftAux == Unwrap(left.auxiliary_graphs)
IncomingAux == Unwrap(Incoming.auxiliary_graphs)

(* C18: when both Messages carry auxiliary graphs, the accumulator          *)
(* afterwards holds the ids of both sides; an AuxiliaryGraph under an id of *)
(* both keeps the accumulator's edges, and its attributes hold every        *)
(* attribute of either side exactly once.                                   *)
C18_AuxiliaryGraphsMerged ==
    HasAuxiliaryGraphs =>
        /\ DOMAIN LeftAux = DOMAIN PrevAux \cup DOMAIN IncomingAux
        /\ \A id \in DOMAIN PrevAux \cap DOMAIN IncomingAux :
            /\ LeftAux[id].edges = PrevAux[id].edges
            /\ Elements(LeftAux[id].attributes) =
                 Elements(PrevAux[id].attributes) \cup Elements(IncomingAux[id].attributes)
            /\ DuplicateFree(LeftAux[id].attributes)


(* How often x occurs in v. *)
Occurrences(v, x) == Cardinality({i \in 1..Len(v) : v[i] = x})

(* after is the merge of the duplicate-free attribute lists a and b under   *)
(* full structural equality: every Attribute of either side is in it as it  *)
(* was, nothing else is, and an Attribute of both sides is in it once.      *)
MergedByFullEquality(a, b, after) ==
    (DuplicateFree(a) /\ DuplicateFree(b)) =>
        /\ Elements(after) = Elements(a) \cup Elements(b)
        /\ \A x \in Elements(a) \cap Elements(b) : Occurrences(after, x) = 1

(* C19: merging the attribute lists of a Node or an Edge present on both    *)
(* sides removes duplicates only under full structural equality: two        *)
(* Attributes with one (attribute_type_id, original_attribute_name) and     *)
(* different values both survive unchanged, and two fully equal             *)
(* Attributes, one from each side, collapse to one.                         *)
C19_DedupByFullEquality ==
    HasGraphs =>
        /\ \A k \in DOMAIN PrevGraph.nodes \cap DOMAIN IncomingGraph.nodes :
            MergedByFullEquality(PrevGraph.nodes[k].attributes,
                                 IncomingGraph.nodes[k].attributes,
                                 LeftGraph.nodes[k].attributes)
        /\ \A k \in DOMAIN PrevGraph.edges \cap DOMAIN IncomingGraph.edges :
            (IsSome(PrevGraph.edges[k].attributes) /\ IsSome(IncomingGraph.edges[k].attributes)) =>
                MergedByFullEquality(Unwrap(PrevGraph.edges[k].attributes),
                                     Unwrap(IncomingGraph.edges[k].attributes),
                                     Unwrap(LeftGraph.edges[k].attributes))


(* C20: matching takes the first match in list order.  Of several incoming  *)
(* Results with the identity of an accumulator Result only the first gives  *)
(* it node-binding attributes and edge bindings; of several Analyses of     *)
(* that Result matching an accumulator Analysis only the first gives it     *)
(* edge bindings; and every accumulator Result of that identity receives    *)
(* them.                                                                    *)
C20_FirstMatchOnly ==
    HasResults =>
        \A i \in 1..Len(PrevResults) :
            IdentityEqual(i) # {} =>
                LET q == IncomingResults[Min(IdentityEqual(i))]
                IN  /\ LeftResults[i].node_bindings =
                         MergeNodeBindings(PrevResults[i].node_bindings, q.node_bindings)
                    /\ \A j \in 1..Len(PrevResults[i].analyses) :
                        LET a    == PrevResults[i].analyses[j]
                            hits == ScoredMatches(a, q)
                        IN  LeftResults[i].analyses[j] =
                                IF hits = {} THEN a
                                ELSE [a EXCEPT !.edge_bindings =
                                        ExtendEdgeBindings(@, q.analyses[Min(hits)].edge_bindings)]

(* Two accumulator Results of one identity met two incoming Results of that *)
(* identity, the first of which has two Analyses matching one accumulator   *)
(* Analysis; both accumulator Results changed.                              *)
C20_Witness ==
    /\ HasResults
    /\ \E i, h \in 1..Len(PrevResults) :
        /\ i # h
        /\ JoinedIds(PrevResults[i]) = JoinedIds(PrevResults[h])
        /\ Cardinality(IdentityEqual(i)) >= 2
        /\ LeftResults[i] # PrevResults[i]
        /\ LeftResults[h] # PrevResults[h]
        /\ \E j \in 1..Len(PrevResults[i].analyses) :
            Cardinality(ScoredMatches(PrevResults[i].analyses[j],
                                      IncomingResults[Min(IdentityEqual(i))])) >= 2

====
